---- MODULE Spec2Model ----
(***************************************************************************)
(* Model of the 10-K section extraction engine (src/processors/parser.py). *)
(*                                                                         *)
(* A document text is a sequence of tokens.  A token is either a single    *)
(* character (space, line break, punctuation, digit, the letters of "1A")  *)
(* or an atom standing for a run of characters no pattern can match a part *)
(* of: a whole word, or a run of prose ("p500" is 500 prose characters).   *)
(* Every offset the code compares (the 200 of the header line skip, the    *)
(* 500 of the end gap, min_section_length) is a character offset, TokLen   *)
(* summed over the tokens before a position.                               *)
(***************************************************************************)
EXTENDS Integers, Sequences, FiniteSets, TLC

(* ------------------------------ bounds --------------------------------- *)
\* most section markers (headers of items) in one document
MaxMarkers == 3
\* most prose runs in one document
MaxProse == 2
\* most parse_file calls made on one parser instance
MaxCalls == 2
\* most pieces (phrases, numbers, gaps) in one text given to the cleaner
MaxPieces == 3
\* most files in one batch
MaxFiles == 3
\* most files in an input directory that process_batch is run on repeatedly
MaxInputs == 2
\* most runs of process_batch on one input directory
MaxRuns == 2
\* most rows of the firm_years frame given to download_batch
MaxRows == 2

(* ------------------------------ tokens --------------------------------- *)
\* a run of 499 and of 500 characters of prose
ProseTokens == {"p499", "p500"}

\* the number of characters of each token
TokLenTable ==
    ("p499" :> 499) @@ ("p500" :> 500)
    @@ ("Item" :> 4) @@ ("item" :> 4) @@ ("Risk" :> 4) @@ ("risk" :> 4)
    @@ ("Business" :> 8) @@ ("business" :> 8)
    @@ ("Factors" :> 7) @@ ("factors" :> 7)
    @@ ("Management" :> 10) @@ ("management" :> 10)
    @@ ("Discussion" :> 10) @@ ("discussion" :> 10)
    @@ ("A" :> 1) @@ ("a" :> 1) @@ ("s" :> 1) @@ ("'" :> 1)
    @@ ("1" :> 1) @@ ("2" :> 1) @@ ("7" :> 1)
    @@ ("." :> 1) @@ (" " :> 1) @@ ("\n" :> 1)
    @@ ("table" :> 5) @@ ("Table" :> 5) @@ ("of" :> 2) @@ ("contents" :> 8)
    @@ ("page" :> 4) @@ ("exhibit" :> 7) @@ ("index" :> 5) @@ ("form" :> 4)
    @@ ("May" :> 3) @@ ("nbsp" :> 4) @@ ("amp" :> 3) @@ ("frac" :> 4)
    @@ ("ab" :> 2)
    @@ ("b" :> 1) @@ ("I" :> 1) @@ ("k" :> 1) @@ ("0" :> 1)
    @@ ("\t" :> 1) @@ ("," :> 1) @@ ("-" :> 1) @@ ("&" :> 1) @@ (";" :> 1)
    @@ ("<" :> 1) @@ (">" :> 1)

TokLen(t) == TokLenTable[t]

\* the tokens that str.lower() changes
LowerTable ==
    ("Item" :> "item") @@ ("Business" :> "business") @@ ("Risk" :> "risk")
    @@ ("Factors" :> "factors") @@ ("Management" :> "management")
    @@ ("Discussion" :> "discussion") @@ ("A" :> "a")
    @@ ("Table" :> "table") @@ ("May" :> "may") @@ ("I" :> "i")

\* str.lower() on one token
LowerTok(t) == IF t \in DOMAIN LowerTable THEN LowerTable[t] ELSE t

\* text.lower()
Lower(text) == [i \in 1..Len(text) |-> LowerTok(text[i])]

RECURSIVE Off(_, _)
\* character offset (0-based, as in Python) of the token at index i;
\* index Len(text)+1 is the end of the text
Off(text, i) == IF i <= 1 THEN 0 ELSE TokLen(text[i - 1]) + Off(text, i - 1)

\* len(text) in characters
CharLen(text) == Off(text, Len(text) + 1)

(* ------------------------- regular expressions ------------------------- *)
\* \s
WS == {" ", "\n", "\t"}
\* [\.\:\s]
PunctWS == {".", ":"} \cup WS
\* [\.\s]
DotWS == {"."} \cup WS
\* [\-—]
Dash == {"-"}
\* \d
Digit == {"0", "1", "2", "7", "8"}

Lit(t) == <<[k |-> "one", c |-> {t}]>>
One(c) == <<[k |-> "one", c |-> c]>>
Star(c) == <<[k |-> "star", c |-> c]>>
Plus(c) == One(c) \o Star(c)
Opt(c) == <<[k |-> "opt", c |-> c]>>
\* ^ ("bol") and $ ("eol") under re.MULTILINE
Anchor(k) == <<[k |-> k, c |-> {}]>>

NoMatch == [start |-> 0, end |-> 0]

RECURSIVE MatchSeq(_, _, _, _)
\* match the elements k.. of one alternative at token index pos, greedy with
\* backtracking; the index just past the match, or 0 when there is none
MatchSeq(text, alt, k, pos) ==
    IF k > Len(alt) THEN pos
    ELSE LET e == alt[k]
             here == pos <= Len(text) /\ text[pos] \in e.c
         IN  CASE e.k = "one" ->
                    IF here THEN MatchSeq(text, alt, k + 1, pos + 1) ELSE 0
               [] e.k = "star" ->
                    IF here
                    THEN LET more == MatchSeq(text, alt, k, pos + 1)
                         IN  IF more # 0 THEN more
                             ELSE MatchSeq(text, alt, k + 1, pos)
                    ELSE MatchSeq(text, alt, k + 1, pos)
               [] e.k = "opt" ->
                    IF here
                    THEN LET taken == MatchSeq(text, alt, k + 1, pos + 1)
                         IN  IF taken # 0 THEN taken
                             ELSE MatchSeq(text, alt, k + 1, pos)
                    ELSE MatchSeq(text, alt, k + 1, pos)
               [] e.k = "bol" ->
                    IF pos = 1 \/ text[pos - 1] = "\n"
                    THEN MatchSeq(text, alt, k + 1, pos) ELSE 0
               [] e.k = "eol" ->
                    IF pos > Len(text) \/ text[pos] = "\n"
                    THEN MatchSeq(text, alt, k + 1, pos) ELSE 0

RECURSIVE MatchAlts(_, _, _, _)
\* a pattern is the ordered sequence of its alternatives; the first
\* alternative that matches at pos wins
MatchAlts(text, pat, a, pos) ==
    IF a > Len(pat) THEN 0
    ELSE LET r == MatchSeq(text, pat[a], 1, pos)
         IN  IF r # 0 THEN r ELSE MatchAlts(text, pat, a + 1, pos)

\* pattern.match anchored at pos
MatchAt(text, pat, pos) == MatchAlts(text, pat, 1, pos)

\* the tokens a match of the pattern can start with (every alternative of
\* every pattern here starts with a literal)
FirstToks(pat) == UNION {pat[a][1].c : a \in 1..Len(pat)}

\* re.search(pattern, text[pos:]): the leftmost match at or after pos
Search(text, pat, pos) ==
    LET first == FirstToks(pat)
        hits == {i \in pos..Len(text) :
                    text[i] \in first /\ MatchAt(text, pat, i) # 0}
    IN  IF hits = {} THEN NoMatch
        ELSE LET i == CHOOSE h \in hits : \A g \in hits : h <= g
             IN  [start |-> i, end |-> MatchAt(text, pat, i)]

RECURSIVE FindIter(_, _, _)
\* re.finditer(pattern, text): the non-overlapping matches, left to right
FindIter(text, pat, pos) ==
    LET m == Search(text, pat, pos)
    IN  IF m = NoMatch THEN <<>>
        ELSE <<m>> \o FindIter(text, pat, m.end)

(* --------------------------- pattern tables ---------------------------- *)
Sections == <<"item_1", "item_1a", "item_7">>
SectionSet == {"item_1", "item_1a", "item_7"}

\* item\s*<label>
ItemLabel(label) == Lit("item") \o Star(WS) \o label
\* (?:item\s*N[\.\:\s]+|item\s*N\s*[\-—]\s*)
HeadA(label) == ItemLabel(label) \o Plus(PunctWS)
HeadB(label) == ItemLabel(label) \o Star(WS) \o One(Dash) \o Star(WS)
\* >\s*item\s*N[\.\:\s]
Bracketed(label) == <<Lit(">") \o Star(WS) \o ItemLabel(label) \o One(PunctWS)>>
\* item\s*N[\.\s]+word
Dotted(label, word) == <<ItemLabel(label) \o Plus(DotWS) \o Lit(word)>>
\* item\s+N\s*\n+\s*word
OwnLine(label, word) ==
    <<Lit("item") \o Plus(WS) \o label \o Star(WS) \o Plus({"\n"})
        \o Star(WS) \o Lit(word)>>

L1 == Lit("1")
L1a == Lit("1") \o Lit("a")
L1b == Lit("1") \o Lit("b")
L2 == Lit("2")
L7 == Lit("7")
L7a == Lit("7") \o Lit("a")
L8 == Lit("8")

DescriptionOfBusiness ==
    Lit("description") \o Plus(WS) \o Lit("of") \o Plus(WS) \o Lit("business")
\* risk\s*factors?
RiskFactors == Lit("risk") \o Star(WS) \o One({"factor", "factors"})

SECTION_PATTERNS ==
    [item_1 |-> <<
        << HeadA(L1) \o Lit("business"), HeadA(L1) \o DescriptionOfBusiness,
           HeadB(L1) \o Lit("business"), HeadB(L1) \o DescriptionOfBusiness >>,
        Bracketed(L1),
        Dotted(L1, "business"),
        OwnLine(L1, "business"),
        << Lit("part") \o Plus(WS) \o Lit("i") \o Star(WS) \o Plus({"\n"})
             \o Star(WS) \o ItemLabel(L1) >> >>,
     item_1a |-> <<
        << HeadA(L1a) \o RiskFactors, HeadB(L1a) \o RiskFactors >>,
        Bracketed(L1a),
        Dotted(L1a, "risk"),
        OwnLine(L1a, "risk") >>,
     item_7 |-> <<
        << HeadA(L7) \o Lit("management"), HeadA(L7) \o Lit("md&a"),
           HeadA(L7) \o Lit("discussion"),
           HeadB(L7) \o Lit("management"), HeadB(L7) \o Lit("md&a"),
           HeadB(L7) \o Lit("discussion") >>,
        Bracketed(L7),
        Dotted(L7, "management"),
        OwnLine(L7, "management"),
        << ItemLabel(L7) \o Plus(DotWS) \o Lit("management") \o Opt({"'"})
             \o Opt({"s"}) \o Plus(WS) \o Lit("discussion") >> >>]

\* \n\s*item\s*N[\.\:\s]+
EndHeader(label) ==
    <<Lit("\n") \o Star(WS) \o ItemLabel(label) \o Plus(PunctWS)>>

SECTION_END_PATTERNS ==
    [item_1 |-> <<EndHeader(L1a), EndHeader(L1b), EndHeader(L2)>>,
     item_1a |-> <<EndHeader(L1b), EndHeader(L2)>>,
     item_7 |-> <<EndHeader(L7a), EndHeader(L8)>>]

\* \n\s*item\s*\d
NextItemPattern ==
    <<Lit("\n") \o Star(WS) \o Lit("item") \o Star(WS) \o One(Digit)>>

(* ------------------------- _extract_section ---------------------------- *)
\* a line break this close after the header match ends the header line
HeaderLineWindow == 200
\* an end marker this close to the start is taken for a table-of-contents entry
MinEndGap == 500

RECURSIVE CandidatesFrom(_, _, _)
\* the matches of the start patterns k.. in pattern order, each pattern's
\* matches left to right
CandidatesFrom(text_lower, patterns, k) ==
    IF k > Len(patterns) THEN <<>>
    ELSE FindIter(text_lower, patterns[k], 1)
           \o CandidatesFrom(text_lower, patterns, k + 1)

\* candidates, before sorting
Candidates(text_lower, section_name) ==
    CandidatesFrom(text_lower, SECTION_PATTERNS[section_name], 1)

\* largest m.start() of a non-empty list of matches
MaxStart(cands) ==
    CHOOSE v \in {cands[i].start : i \in 1..Len(cands)} :
        \A i \in 1..Len(cands) : cands[i].start <= v

\* smallest m.start() of a non-empty list of matches
MinStart(cands) ==
    CHOOSE v \in {cands[i].start : i \in 1..Len(cands)} :
        \A i \in 1..Len(cands) : cands[i].start >= v

\* index of the first match of the list that starts at v
FirstWithStart(cands, v) ==
    CHOOSE i \in 1..Len(cands) :
        /\ cands[i].start = v
        /\ \A j \in 1..(i - 1) : cands[j].start # v

\* the list without its element i
RemoveAt(cands, i) ==
    SubSeq(cands, 1, i - 1) \o SubSeq(cands, i + 1, Len(cands))

RECURSIVE SortCandidatesAscending(_)
\* the sort without reverse=True: earliest first
SortCandidatesAscending(cands) ==
    IF cands = <<>> THEN <<>>
    ELSE LET i == FirstWithStart(cands, MinStart(cands))
         IN  <<cands[i]>> \o SortCandidatesAscending(RemoveAt(cands, i))

RECURSIVE SortCandidates(_)
\* candidates.sort(key=lambda m: m.start(), reverse=True): latest first,
\* stable (matches with the same start keep their order)
SortCandidates(cands) ==
    IF cands = <<>> THEN <<>>
    ELSE LET i == FirstWithStart(cands, MaxStart(cands))
         IN  <<cands[i]>> \o SortCandidates(RemoveAt(cands, i))

RECURSIVE FindNewline(_, _)
\* text.find('\n', pos): index of the first line break at or after pos,
\* 0 where Python gives -1
FindNewline(text, pos) ==
    IF pos > Len(text) THEN 0
    ELSE IF text[pos] = "\n" THEN pos
    ELSE FindNewline(text, pos + 1)

\* a start that is moved past the next line break however far that is
StartPosAnyLine(text, match) ==
    IF FindNewline(text, match.end) # 0
    THEN FindNewline(text, match.end) + 1
    ELSE match.end

\* start_pos of a candidate: the end of its match, moved past the rest of
\* the header line when that line ends within the window
StartPos(text, match) ==
    LET start_pos == match.end
        next_newline == FindNewline(text, start_pos)
    IN  IF /\ next_newline # 0
           /\ Off(text, next_newline) - Off(text, start_pos) < HeaderLineWindow
        THEN next_newline + 1
        ELSE start_pos

\* the test on end_match.start(), the distance from start_pos to the marker
FarEnough(gap) == gap > MinEndGap

RECURSIVE EndPosFrom(_, _, _, _, _)
\* Phase 1 end: the end patterns in list order, each one's first match
\* after start_pos; the first that is far enough ends the section, and
\* the end of the text does when none is
EndPosFrom(text, text_lower, patterns, k, start_pos) ==
    IF k > Len(patterns) THEN Len(text) + 1
    ELSE LET end_match == Search(text_lower, patterns[k], start_pos)
         IN  IF /\ end_match # NoMatch
                /\ FarEnough(Off(text, end_match.start) - Off(text, start_pos))
             THEN end_match.start
             ELSE EndPosFrom(text, text_lower, patterns, k + 1, start_pos)

EndPos(text, text_lower, section_name, start_pos) ==
    EndPosFrom(text, text_lower, SECTION_END_PATTERNS[section_name], 1,
               start_pos)

\* Phase 2 end: the first "item <digit>" line after start_pos, if far enough
RelaxedEndPos(text, text_lower, start_pos) ==
    LET next_item == Search(text_lower, NextItemPattern, start_pos)
    IN  IF /\ next_item # NoMatch
           /\ FarEnough(Off(text, next_item.start) - Off(text, start_pos))
        THEN next_item.start
        ELSE Len(text) + 1

\* len(text[start_pos:end_pos])
SpanLen(text, start_pos, end_pos) == Off(text, end_pos) - Off(text, start_pos)

\* the validation with a strict comparison
LongEnoughStrict(length, min_section_length) == length > min_section_length

\* the length validation of a span
LongEnough(length, min_section_length) == length >= min_section_length

\* what _extract_section holds when it returns: the phase that accepted
\* (0: none), the candidate and its span
Unresolved == [phase |-> 0, match |-> NoMatch, start_pos |-> 0, end_pos |-> 0]

\* a first phase that accepts no candidate
Phase1NeverAccepts(text, text_lower, section_name, sorted, i, min_section_length) ==
    Unresolved

RECURSIVE Phase1(_, _, _, _, _, _)
\* for match in candidates: the first candidate from index i on whose span
\* is long enough
Phase1(text, text_lower, section_name, sorted, i, min_section_length) ==
    IF i > Len(sorted) THEN Unresolved
    ELSE LET start_pos == StartPos(text, sorted[i])
             end_pos == EndPos(text, text_lower, section_name, start_pos)
         IN  IF LongEnough(SpanLen(text, start_pos, end_pos), min_section_length)
             THEN [phase |-> 1, match |-> sorted[i],
                   start_pos |-> start_pos, end_pos |-> end_pos]
             ELSE Phase1(text, text_lower, section_name, sorted, i + 1,
                         min_section_length)

\* an extraction without the relaxed attempt
Phase2Skipped(text, text_lower, sorted, min_section_length) == Unresolved

\* min(candidates, key=lambda m: m.start()): the first of the earliest
EarliestCandidate(sorted) == sorted[FirstWithStart(sorted, MinStart(sorted))]

\* the relaxed attempt on the earliest candidate
Phase2(text, text_lower, sorted, min_section_length) ==
    LET match == EarliestCandidate(sorted)
        start_pos == StartPos(text, match)
        end_pos == RelaxedEndPos(text, text_lower, start_pos)
    IN  IF LongEnough(SpanLen(text, start_pos, end_pos), min_section_length)
        THEN [phase |-> 2, match |-> match,
              start_pos |-> start_pos, end_pos |-> end_pos]
        ELSE Unresolved

\* the fallback: the Phase 1 result when it accepted a candidate, else
\* the relaxed attempt
Fallback(first, text, text_lower, sorted, min_section_length) ==
    IF first.phase = 1 THEN first
    ELSE Phase2(text, text_lower, sorted, min_section_length)

\* an extraction that, finding no candidate, takes the whole text for the
\* section instead of returning
ResolveCandidatesUnguarded(text, text_lower, section_name, candidates, min_section_length) ==
    IF candidates = <<>>
    THEN IF LongEnough(CharLen(text), min_section_length)
         THEN [phase |-> 2, match |-> NoMatch, start_pos |-> 1,
               end_pos |-> Len(text) + 1]
         ELSE Unresolved
    ELSE Fallback(Phase1(text, text_lower, section_name,
                         SortCandidates(candidates), 1, min_section_length),
                  text, text_lower, SortCandidates(candidates),
                  min_section_length)

\* the two phases on the candidates found; no candidate, no section
ResolveCandidates(text, text_lower, section_name, candidates, min_section_length) ==
    IF candidates = <<>> THEN Unresolved
    ELSE Fallback(Phase1(text, text_lower, section_name,
                         SortCandidates(candidates), 1, min_section_length),
                  text, text_lower, SortCandidates(candidates),
                  min_section_length)

\* the matching runs on text_lower = text.lower()
ResolveLower(text, text_lower, section_name, min_section_length) ==
    ResolveCandidates(text, text_lower, section_name,
                      Candidates(text_lower, section_name), min_section_length)

\* Phase 1, then Phase 2, then absent
Resolve(text, section_name, min_section_length) ==
    ResolveLower(text, Lower(text), section_name, min_section_length)

RECURSIVE LStrip(_)
LStrip(text) ==
    IF text # <<>> /\ Head(text) \in WS THEN LStrip(Tail(text)) ELSE text

RECURSIVE RStrip(_)
RStrip(text) ==
    IF text # <<>> /\ text[Len(text)] \in WS
    THEN RStrip(SubSeq(text, 1, Len(text) - 1))
    ELSE text

\* str.strip()
Strip(text) == RStrip(LStrip(text))

\* Optional[str]
None == [some |-> FALSE, text |-> <<>>]
Some(text) == [some |-> TRUE, text |-> text]

\* the value returned for a resolution: text[start_pos:end_pos].strip()
SectionValue(text, res) ==
    IF res.phase = 0 THEN None
    ELSE Some(Strip(SubSeq(text, res.start_pos, res.end_pos - 1)))

(* ------------------------------ parse_file ----------------------------- *)
\* re.sub(tok{keep+1,}, tok * keep, text) drops a token exactly when it is
\* tok and the keep tokens right before it are tok too
Dropped(text, tok, keep, i) ==
    /\ text[i] = tok
    /\ i > keep
    /\ \A j \in 1..keep : text[i - j] = tok

RECURSIVE KeepFrom(_, _, _, _)
KeepFrom(text, tok, keep, i) ==
    IF i > Len(text) THEN <<>>
    ELSE (IF Dropped(text, tok, keep, i) THEN <<>> ELSE <<text[i]>>)
           \o KeepFrom(text, tok, keep, i + 1)

\* the text with every run of more than keep tok cut down to keep
CollapseRuns(text, tok, keep) ==
    IF \A i \in 1..Len(text) : ~Dropped(text, tok, keep, i)
    THEN text
    ELSE KeepFrom(text, tok, keep, 1)

\* text = re.sub(r'\n{4,}', '\n\n\n', text); text = re.sub(r' {3,}', '  ', text)
CleanupWhitespace(text) == CollapseRuns(CollapseRuns(text, "\n", 3), " ", 2)

AllNone == [s \in SectionSet |-> None]
AllUnresolved == [s \in SectionSet |-> Unresolved]

\* results[section_name] = the value of the resolution res; spans keeps res
Store(acc, section_name, text, res) ==
    [value |-> acc.value @@ (section_name :> SectionValue(text, res)),
     spans |-> acc.spans @@ (section_name :> res)]

RECURSIVE ExtractEachBlocking(_, _, _, _)
\* a loop in which an absent section blocks the sections after it
ExtractEachBlocking(text, i, min_section_length, acc) ==
    IF i > Len(Sections) THEN acc
    ELSE ExtractEachBlocking(text, i + 1, min_section_length,
             Store(acc, Sections[i], text,
                   IF \E s \in DOMAIN acc.value : ~acc.value[s].some
                   THEN Unresolved
                   ELSE Resolve(text, Sections[i], min_section_length)))

RECURSIVE ExtractEach(_, _, _, _)
\* for section_name in [...]: results[section_name] = _extract_section(...)
ExtractEach(text, i, min_section_length, acc) ==
    IF i > Len(Sections) THEN acc
    ELSE ExtractEach(text, i + 1, min_section_length,
             Store(acc, Sections[i], text,
                   Resolve(text, Sections[i], min_section_length)))

\* the outcome of a try block that ran to its return statement
Returns(results) ==
    [raised |-> FALSE, value |-> results.value, spans |-> results.spans]

\* the body of the try block: an exception of the read, of the rendering or
\* of the extraction leaves it at once
TryBody(f, min_section_length) ==
    IF f.fault # "none"
    THEN [raised |-> TRUE, value |-> AllNone, spans |-> AllUnresolved]
    ELSE Returns(ExtractEach(CleanupWhitespace(f.text), 1,
                     min_section_length, [value |-> <<>>, spans |-> <<>>]))

\* a handler that lets the exception through
ExceptReraised(outcome) == outcome

\* except Exception: log and return the all-None mapping
Except(outcome) ==
    IF outcome.raised
    THEN [raised |-> FALSE, value |-> AllNone, spans |-> AllUnresolved]
    ELSE outcome

\* what the caller of parse_file observes of an outcome
Observed(outcome) ==
    [called |-> TRUE, raised |-> outcome.raised, value |-> outcome.value,
     spans |-> outcome.spans]

\* parse_file: whether the call raises, the mapping it returns and the
\* spans accepted on the way
parse_file(f, min_section_length) ==
    IF ~f.exists
    THEN [called |-> TRUE, raised |-> FALSE, value |-> AllNone,
          spans |-> AllUnresolved]
    ELSE Observed(Except(TryBody(f, min_section_length)))

\* a parser that drops its threshold once it has read a file
ParserAfterLowered(f, min_section_length) ==
    IF f.exists THEN min_section_length - min_section_length
    ELSE min_section_length

\* the parser's field after a call of parse_file: no method assigns to it
ParserAfter(f, min_section_length) == min_section_length

(* ----------------------------- TextCleaner ----------------------------- *)
\* every token a text can hold
Tokens == DOMAIN TokLenTable
\* the tokens made of letters only, [a-z]+ under re.IGNORECASE
WordTokens == Tokens \ (WS \cup Digit \cup {".", ",", "'", "-", "&", ";", "<", ">"})

\* a literal word under re.IGNORECASE: the tokens that spell it in any case
LitI(word) == <<[k |-> "one", c |-> {t \in Tokens : LowerTok(t) = word}]>>

RECURSIVE Sub(_, _, _, _)
\* re.sub(pattern, repl, text) from token index pos on: every match, left to
\* right and without overlap, gives way to repl
Sub(text, pat, repl, pos) ==
    IF pos > Len(text) THEN <<>>
    ELSE IF MatchAt(text, pat, pos) > pos
         THEN repl \o Sub(text, pat, repl, MatchAt(text, pat, pos))
         ELSE <<text[pos]>> \o Sub(text, pat, repl, pos + 1)

RECURSIVE SubEach(_, _, _, _)
\* for pattern in patterns: text = re.sub(pattern, repl, text)
SubEach(text, patterns, repl, k) ==
    IF k > Len(patterns) THEN text
    ELSE SubEach(Sub(text, patterns[k], repl, 1), patterns, repl, k + 1)

\* re.search(pattern, text) finds a match
Found(text, pat) == \E i \in 1..Len(text) : MatchAt(text, pat, i) # 0

HTML_PATTERNS ==
    << <<Lit("&") \o LitI("nbsp") \o Opt({";"})>>,
       <<Lit("&") \o Plus(WordTokens) \o Lit(";")>>,
       <<Lit("<") \o Plus(Tokens \ {">"}) \o Lit(">")>> >>

BOILERPLATE_PATTERNS ==
    << <<LitI("table") \o Plus(WS) \o LitI("of") \o Plus(WS) \o LitI("contents")>>,
       <<LitI("page") \o Plus(WS) \o Plus(Digit) \o Plus(WS) \o LitI("of")
           \o Plus(WS) \o Plus(Digit)>>,
       <<Plus(Digit) \o Star(WS) \o Lit("\n") \o Star(WS) \o LitI("table")
           \o Plus(WS) \o LitI("of") \o Plus(WS) \o LitI("contents")>>,
       <<One({t \in Tokens : LowerTok(t) \in {"exhibit", "schedule"}})
           \o Plus(WS) \o LitI("index")>> >>

\* for pattern in HTML_PATTERNS: text = re.sub(pattern, ' ', text)
remove_html_artifacts(text) == SubEach(text, HTML_PATTERNS, <<" ">>, 1)

\* for pattern in BOILERPLATE_PATTERNS: text = re.sub(pattern, '', text)
remove_boilerplate(text) == SubEach(text, BOILERPLATE_PATTERNS, <<>>, 1)

RECURSIVE SplitAt(_, _, _, _)
\* text.split(sep) from index pos on, cur being the piece collected so far;
\* as in Python the empty text gives one empty piece
SplitAt(text, sep, pos, cur) ==
    IF pos > Len(text) THEN <<cur>>
    ELSE IF text[pos] = sep
         THEN <<cur>> \o SplitAt(text, sep, pos + 1, <<>>)
         ELSE SplitAt(text, sep, pos + 1, Append(cur, text[pos]))

\* text.split('\n')
SplitLines(text) == SplitAt(text, "\n", 1, <<>>)

RECURSIVE Join(_, _)
\* sep.join(pieces)
Join(sep, pieces) ==
    IF pieces = <<>> THEN <<>>
    ELSE IF Len(pieces) = 1 THEN pieces[1]
         ELSE pieces[1] \o <<sep>> \o Join(sep, Tail(pieces))

\* len(re.findall(r'[^\w\s]', line))
PunctCount(line) ==
    Cardinality({i \in 1..Len(line) : line[i] \notin WS \cup Digit \cup WordTokens})

\* the three tests of _remove_tables that make it skip a line:
\* (\d+\s+){3,}, which has a match exactly where three repetitions have one;
\* (\.{3,}|\s{3,}) together with \d; and the count of punctuation compared
\* with len(line) * 0.4, here in tenths
IsTableLine(line) ==
    \/ Found(line, <<Plus(Digit) \o Plus(WS) \o Plus(Digit) \o Plus(WS)
                       \o Plus(Digit) \o Plus(WS)>>)
    \/ /\ Found(line, <<Lit(".") \o Lit(".") \o Plus({"."}),
                        One(WS) \o One(WS) \o Plus(WS)>>)
       /\ Found(line, <<One(Digit)>>)
    \/ 10 * PunctCount(line) > 4 * CharLen(line)

\* _remove_tables: the lines that are not skipped, joined again
remove_tables(text) ==
    Join("\n", SelectSeq(SplitLines(text), LAMBDA line : ~IsTableLine(line)))

MonthNames ==
    {"january", "february", "march", "april", "may", "june", "july",
     "august", "september", "october", "november", "december"}
\* _remove_headers_footers: the three substitutions in turn, of
\* ^\s*\d+\s*$, of form\s+10-k and of
\* ^\s*(?:january|...|december)\s+\d{1,2},?\s+\d{4}\s*$
remove_headers_footers(text) ==
    SubEach(text,
        << <<Anchor("bol") \o Star(WS) \o Plus(Digit) \o Star(WS)
               \o Anchor("eol")>>,
           <<LitI("form") \o Plus(WS) \o Lit("1") \o Lit("0") \o Lit("-")
               \o LitI("k")>>,
           <<Anchor("bol") \o Star(WS)
               \o One({t \in Tokens : LowerTok(t) \in MonthNames})
               \o Plus(WS) \o One(Digit) \o Opt(Digit) \o Opt({","})
               \o Plus(WS) \o One(Digit) \o One(Digit) \o One(Digit)
               \o One(Digit) \o Star(WS) \o Anchor("eol")>> >>,
        <<>>, 1)

\* a loop that keeps every line
LimitEmptyKeepsAll(lines, i, consecutive_empty, max_consecutive_newlines) ==
    SubSeq(lines, i, Len(lines))

RECURSIVE LimitEmpty(_, _, _, _)
\* the loop over the stripped lines: a line with text is kept and resets
\* consecutive_empty, an empty one is kept while the count is within max
LimitEmpty(lines, i, consecutive_empty, max_consecutive_newlines) ==
    IF i > Len(lines) THEN <<>>
    ELSE IF lines[i] # <<>>
         THEN <<lines[i]>>
                \o LimitEmpty(lines, i + 1, 0, max_consecutive_newlines)
         ELSE (IF consecutive_empty + 1 <= max_consecutive_newlines
               THEN <<lines[i]>> ELSE <<>>)
                \o LimitEmpty(lines, i + 1, consecutive_empty + 1,
                              max_consecutive_newlines)

\* lines = [line.strip() for line in text.split('\n')]
StrippedLines(text) ==
    LET lines == SplitLines(text)
    IN  [i \in 1..Len(lines) |-> Strip(lines[i])]

\* a normalisation that drops the white space altogether
normalize_whitespace_glued(text, max_consecutive_newlines) ==
    SelectSeq(text, LAMBDA t : t \notin WS)

\* _normalize_whitespace: text.replace('\t', ' '), re.sub(r' +', ' ', text),
\* then the lines stripped, limited and joined
normalize_whitespace(text, max_consecutive_newlines) ==
    Join("\n",
         LimitEmpty(
             StrippedLines(CollapseRuns(
                 [i \in 1..Len(text) |-> IF text[i] = "\t" THEN " " ELSE text[i]],
                 " ", 1)),
             1, 0, max_consecutive_newlines))

RECURSIVE SplitWords(_, _, _)
\* text.split(): the maximal runs of tokens that are not whitespace
SplitWords(text, pos, cur) ==
    IF pos > Len(text) THEN (IF cur = <<>> THEN <<>> ELSE <<cur>>)
    ELSE IF text[pos] \in WS
         THEN (IF cur = <<>> THEN <<>> ELSE <<cur>>)
                \o SplitWords(text, pos + 1, <<>>)
         ELSE SplitWords(text, pos + 1, Append(cur, text[pos]))

RECURSIVE Spelled(_)
\* the string a run of tokens spells
Spelled(word) ==
    IF word = <<>> THEN "" ELSE Head(word) \o Spelled(Tail(word))

\* preserve
PreserveWords ==
    {"a", "i", "is", "it", "to", "or", "of", "in", "at", "by", "on", "if",
     "no", "we", "us"}

\* the test with a strict comparison
KeepWordLonger(word, min_word_length) ==
    \/ CharLen(word) > min_word_length
    \/ Spelled(Lower(word)) \in PreserveWords

\* len(word) >= self.min_word_length or word.lower() in preserve
KeepWord(word, min_word_length) ==
    \/ CharLen(word) >= min_word_length
    \/ Spelled(Lower(word)) \in PreserveWords

\* a filter that puts every kept word on a line of its own
filter_short_words_lines(text, min_word_length) ==
    Join("\n", SelectSeq(SplitWords(text, 1, <<>>),
                         LAMBDA word : KeepWord(word, min_word_length)))

\* _filter_short_words: ' '.join(filtered)
filter_short_words(text, min_word_length) ==
    Join(" ", SelectSeq(SplitWords(text, 1, <<>>),
                        LAMBDA word : KeepWord(word, min_word_length)))

\* TextCleaner() as process_batch builds it: the defaults of __init__
DefaultCleaner ==
    [remove_tables |-> TRUE, remove_headers |-> TRUE,
     normalize_whitespace |-> TRUE, min_word_length |-> 2,
     max_consecutive_newlines |-> 2]

\* one step of clean that a toggle of the cleaner switches on or off
Step(enabled, cleaned, text) == IF enabled THEN cleaned ELSE text

\* steps 4 to 7 of clean
CleanTail(self, text) ==
    Strip(filter_short_words(
        Step(self.normalize_whitespace,
             normalize_whitespace(
                 Step(self.remove_headers, remove_headers_footers(text), text),
                 self.max_consecutive_newlines),
             Step(self.remove_headers, remove_headers_footers(text), text)),
        self.min_word_length))

\* TextCleaner.clean
clean(self, text) ==
    IF text = <<>> THEN <<>>
    ELSE CleanTail(self,
             Step(self.remove_tables,
                  remove_tables(remove_boilerplate(remove_html_artifacts(text))),
                  remove_boilerplate(remove_html_artifacts(text))))

(* ---------------------------- process_batch ---------------------------- *)
\* the steps of process_file, after the parse, that the environment can fail
\* (cleaning, opening the output file, writing it): at most one step of one
\* section fails while a file is processed, or none
SaveFaults ==
    {[section |-> "none", step |-> "none"]}
        \cup {[section |-> s, step |-> x] :
                 s \in SectionSet, x \in {"clean", "open", "write"}}

\* results = {'filename': ..., 'success': False, 'sections_extracted': 0,
\*            'sections_cleaned': 0}; lengths holds the '<section>_length' keys
NewRecord(filename) ==
    [filename |-> filename, success |-> FALSE, sections_extracted |-> 0,
     sections_cleaned |-> 0, lengths |-> {}, error |-> FALSE]

\* an exception leaves the try block: the record and the files as they are
Raise(acc) == [acc EXCEPT !.raised = TRUE]

\* open(output_file, 'w') and f.write(text): the file of that name holds
\* text, whatever it held before
Overwrite(out, filename, section_name, text) ==
    {w \in out : ~(w.file = filename /\ w.section = section_name)}
        \cup {[file |-> filename, section |-> section_name, text |-> text]}

\* with open(output_file, 'w') as f: f.write(text), and the length key
WriteSection(filename, section_name, text, fault, acc) ==
    IF fault = [section |-> section_name, step |-> "open"] THEN Raise(acc)
    ELSE IF fault = [section |-> section_name, step |-> "write"]
    THEN Raise([acc EXCEPT
                   !.out = Overwrite(@, filename, section_name, <<>>)])
    ELSE [acc EXCEPT
             !.out = Overwrite(@, filename, section_name, text),
             !.rec.lengths = @ \cup {<<section_name, CharLen(text)>>}]

\* get_processed_files: the base names that have a file for every section
get_processed_files(out, sections) ==
    {n \in {w.file : w \in out} :
        \A k \in 1..Len(sections) :
            \E w \in out : w.file = n /\ w.section = sections[k]}

\* if clean_text: text = cleaner.clean(text); sections_cleaned += 1
CleanSection(filename, section_name, text, self, clean_text, fault, acc) ==
    IF ~clean_text THEN WriteSection(filename, section_name, text, fault, acc)
    ELSE IF fault = [section |-> section_name, step |-> "clean"] THEN Raise(acc)
    ELSE WriteSection(filename, section_name, clean(self, text), fault,
             [acc EXCEPT !.rec.sections_cleaned = @ + 1])

\* the body of the loop over the sections: if text: sections_extracted += 1
SaveSection(filename, section_name, v, self, clean_text, fault, acc) ==
    IF ~(v.some /\ v.text # <<>>) THEN acc
    ELSE CleanSection(filename, section_name, v.text, self, clean_text, fault,
             [acc EXCEPT !.rec.sections_extracted = @ + 1])

RECURSIVE SaveSections(_, _, _, _, _, _, _)
\* for section_name in sections: ... ; an exception ends the loop
SaveSections(filename, extracted, k, self, clean_text, fault, acc) ==
    IF k > Len(Sections) \/ acc.raised THEN acc
    ELSE SaveSections(filename, extracted, k + 1, self, clean_text, fault,
             SaveSection(filename, Sections[k], extracted[Sections[k]], self,
                         clean_text, fault, acc))

\* results['success'] = results['sections_extracted'] > 0
Finish(acc) ==
    IF acc.raised THEN acc
    ELSE [acc EXCEPT !.rec.success = acc.rec.sections_extracted > 0]

\* a handler that lets the exception through
CaptureReraised(acc) == acc

\* except Exception as e: results['error'] = str(e)
Capture(acc) ==
    IF acc.raised THEN [acc EXCEPT !.raised = FALSE, !.rec.error = TRUE]
    ELSE acc

\* the try block of process_file after extracted = parser.parse_file(filepath)
AfterParse(filename, parsed, self, clean_text, fault, out) ==
    IF parsed.raised
    THEN Raise([rec |-> NewRecord(filename), out |-> out, raised |-> FALSE])
    ELSE Finish(SaveSections(filename, parsed.value, 1, self, clean_text, fault,
             [rec |-> NewRecord(filename), out |-> out, raised |-> FALSE]))

\* process_file: the record it returns, the files in output_dir after it and
\* whether an exception leaves it
process_file(filename, f, min_section_length, self, clean_text, fault, out) ==
    Capture(AfterParse(filename, parse_file(f, min_section_length), self,
                       clean_text, fault, out))

(* ------------------------------ documents ------------------------------ *)
ItemOneHeader == <<"\n", "Item", " ", "1", ".", " ", "Business", "\n">>
ItemOneAHeader ==
    <<"\n", "Item", " ", "1", "A", ".", " ", "Risk", " ", "Factors", "\n">>
ItemTwoHeader == <<"\n", "Item", " ", "2", ".", " ">>
\* a header whose line goes on with prose
ItemSevenHeader ==
    <<"\n", "Item", " ", "7", ".", " ", "Management", "'", "s", " ",
      "Discussion", "\n">>

Markers ==
    {ItemOneHeader, ItemOneAHeader, ItemTwoHeader, ItemSevenHeader,
     <<"\n", "Item", " ", "1", ".", " ", "Business", " ">>}

\* a paragraph: a run of prose and the line break that ends it
ProseRuns == {<<p, "\n">> : p \in ProseTokens}

RECURSIVE Flatten(_)
Flatten(segs) == IF segs = <<>> THEN <<>> ELSE Head(segs) \o Flatten(Tail(segs))

Count(segs, kind) == Cardinality({i \in 1..Len(segs) : segs[i] \in kind})

\* a rendered document: markers and prose runs in any order
Documents ==
    {Flatten(segs) : segs \in
        {q \in UNION {[1..n -> Markers \cup ProseRuns] :
                          n \in 0..(MaxMarkers + MaxProse)} :
            Count(q, Markers) <= MaxMarkers /\ Count(q, ProseRuns) <= MaxProse}}

MissingFile == [exists |-> FALSE, fault |-> "none", text |-> <<>>]
FaultyFiles ==
    {[exists |-> TRUE, fault |-> x, text |-> <<>>] :
        x \in {"read", "render", "extract"}}
Readable(text) == [exists |-> TRUE, fault |-> "none", text |-> text]

Files == {Readable(d) : d \in Documents} \cup FaultyFiles \cup {MissingFile}

\* the other files of the batch, parsed by the same parser
OtherFiles ==
    {MissingFile,
     Readable(ItemOneHeader \o <<"p500", "\n", "p500", "\n">>),
     Readable(ItemOneHeader \o ItemOneAHeader \o <<"p500", "\n">>
                \o ItemTwoHeader \o <<"p500", "\n">>)}

\* the files of a batch: missing, unreadable, without any section, with one
\* section and with two
BatchFiles ==
    {MissingFile,
     [exists |-> TRUE, fault |-> "read", text |-> <<>>],
     Readable(<<"p500", "\n">>),
     Readable(ItemOneHeader \o <<"p500", "\n", "p500", "\n">>),
     Readable(ItemOneHeader \o <<"p500", "\n", "p500", "\n">> \o ItemOneAHeader
                \o <<"p500", "\n", "p500", "\n">>)}

\* the lists of files to process: html_files is not empty when the loop starts
\* values of --min-section-length
MinLengths == {0, 1000}

\* the pieces section texts are made of: residues of markup, boilerplate
\* phrases, parts of table rows, of page headers and footers, white space
\* around words, and words short and long
CleanerPieces ==
    {{<<"&", "nbsp">>, <<"&", "amp", ";">>, <<"&", "frac", "1", "2", ";">>,
      <<"&">>, <<";">>, <<"<", "b", ">">>, <<"<">>, <<">">>, <<"b">>, <<" ">>},
     {<<"table">>, <<"Table">>, <<" ", "of", " ", "contents">>,
      <<"exhibit", " ", "index">>, <<"page", " ", "1", " ", "of", " ", "2">>,
      <<" ">>, <<"\n">>, <<"1">>},
     {<<"1">>, <<"1", " ">>, <<" ">>, <<" ", " ", " ">>, <<".">>,
      <<".", ".", ".">>, <<",">>, <<"a">>, <<"\n">>},
     {<<"form", " ", "1", "0", "-", "k">>, <<"1">>, <<" ">>, <<"\n">>, <<"a">>},
     {<<" ">>, <<"\t">>, <<"\n">>, <<"\n", "\n", "\n", "\n">>, <<"a">>,
      <<" ", " ">>},
     {<<"a">>, <<"b">>, <<"I">>, <<"ab">>, <<"of">>, <<"amp">>, <<" ">>,
      <<"\n">>}}

\* the section texts handed to the cleaning stages: at most MaxPieces pieces
\* of one kind
CleanerTexts ==
    {Flatten(q) : q \in UNION {[1..n -> pieces] :
                                  pieces \in CleanerPieces, n \in 0..MaxPieces}}

\* TextCleaner(remove_tables=..., ..., max_consecutive_newlines=...)
CleanerSettings ==
    [remove_tables : BOOLEAN, remove_headers : BOOLEAN,
     normalize_whitespace : BOOLEAN, min_word_length : {2, 3},
     max_consecutive_newlines : {1, 2}]

(* ------------------------- names and downloads ------------------------- *)
\* file names and CIKs are sequences of single characters
Digits == <<"0", "1", "2", "3", "4", "5", "6", "7", "8", "9">>

RECURSIVE ToStr(_)
\* str(n) of an integer that is not negative
ToStr(n) ==
    IF n < 10 THEN <<Digits[n + 1]>>
    ELSE ToStr(n \div 10) \o <<Digits[(n % 10) + 1]>>

RECURSIVE ToInt(_)
\* int(s) of a string of digits
ToInt(s) ==
    IF s = <<>> THEN 0
    ELSE 10 * ToInt(SubSeq(s, 1, Len(s) - 1))
         + (CHOOSE d \in 0..9 : Digits[d + 1] = s[Len(s)])

\* self._format_cik(cik): str(cik).zfill(10), which leaves a string of ten
\* or more characters alone and puts the zeros after a leading sign
format_cik(cik) ==
    LET zeros == [i \in 1..(10 - Len(cik)) |-> "0"]
    IN  IF Len(cik) >= 10 THEN cik
        ELSE IF cik # <<>> /\ cik[1] \in {"+", "-"}
             THEN <<cik[1]>> \o zeros \o Tail(cik)
             ELSE zeros \o cik

\* validate_cik(cik) on a string without spaces around it: (is_valid,
\* formatted_cik), the formatted CIK <<>> for None
validate_cik(cik) ==
    IF cik = <<>> THEN [valid |-> FALSE, cik |-> <<>>]
    ELSE IF \E i \in 1..Len(cik) : cik[i] \notin {Digits[d] : d \in 1..10}
         THEN [valid |-> FALSE, cik |-> <<>>]
    ELSE IF Len(cik) > 10 THEN [valid |-> FALSE, cik |-> <<>>]
    ELSE [valid |-> TRUE, cik |-> format_cik(cik)]

\* validate_year(year) with the defaults, in the year 2026: min_year is 1994
\* and max_year is datetime.now().year + 1
validate_year(year) == 1994 <= year /\ year <= 2026 + 1

\* validate_filename(filename): (is_valid, cik, year); meta is <<cik, year>>,
\* or <<>> for (None, None)
validate_filename(filename) ==
    LET digit == [k |-> "one", c |-> {Digits[d] : d \in 1..10}]
        stem == [i \in 1..10 |-> digit] \o Lit("_") \o [i \in 1..4 |-> digit]
                \o Lit("_") \o Lit("1") \o Lit("0") \o One({"K", "k"})
                \o Lit(".")
        pattern ==
            << stem \o One({"h", "H"}) \o One({"t", "T"}) \o One({"m", "M"})
                    \o Opt({"l", "L"}) \o Anchor("eol"),
               stem \o One({"t", "T"}) \o One({"x", "X"}) \o One({"t", "T"})
                    \o Anchor("eol") >>
    IN  IF MatchAt(filename, pattern, 1) = 0
        THEN [valid |-> FALSE, meta |-> <<>>]
        ELSE LET cik == SubSeq(filename, 1, 10)
                 year == ToInt(SubSeq(filename, 12, 15))
                 checked_cik == validate_cik(cik)
             IN  IF ~(checked_cik.valid /\ validate_year(year))
                 THEN [valid |-> FALSE, meta |-> <<>>]
                 ELSE [valid |-> TRUE, meta |-> <<checked_cik.cik, year>>]

\* extract_metadata_from_filename(filename): <<cik, year>>, or <<>> for
\* (None, None)
extract_metadata_from_filename(filename) ==
    LET digit == [k |-> "one", c |-> {Digits[d] : d \in 1..10}]
        pattern ==
            << [i \in 1..10 |-> digit] \o Lit("_") \o [i \in 1..4 |-> digit]
               \o Lit("_") \o Lit("1") \o Lit("0") \o Lit("K") >>
        match == Search(filename, pattern, 1)
    IN  IF match = NoMatch THEN <<>>
        ELSE <<SubSeq(filename, match.start, match.start + 9),
               ToInt(SubSeq(filename, match.start + 11, match.start + 14))>>

\* self.download_10k(cik, year, skip_if_exists) with the files of output_dir
\* in dir. found: the library downloaded a filing of that year and it was
\* copied to filepath; otherwise nothing was found or the attempt raised.
\* filepath is <<>> for None
download_10k(cik, year, skip_if_exists, dir, found) ==
    LET filename == format_cik(cik) \o <<"_">> \o ToStr(year)
                    \o <<"_", "1", "0", "K", ".", "h", "t", "m", "l">>
    IN  IF skip_if_exists /\ filename \in dir
        THEN [success |-> TRUE, filepath |-> filename, dir |-> dir,
              copied |-> FALSE]
        ELSE IF found
        THEN [success |-> TRUE, filepath |-> filename,
              dir |-> dir \cup {filename}, copied |-> TRUE]
        ELSE [success |-> FALSE, filepath |-> <<>>, dir |-> dir,
              copied |-> FALSE]

(* ---------------------------- state machine ---------------------------- *)
VARIABLES
    arg_min_section_length,  \* the argument TenKParser was constructed with
    min_section_length,      \* the parser's field
    file,                    \* the file at filepath
    calls,                   \* parse_file calls made on the parser so far
    ret,                     \* outcome of the last parse_file(filepath)
    prev_ret,                \* outcome of the one before it
    cleaner,                 \* the fields of the TextCleaner
    raw,                     \* the text given to a cleaning stage
    stage,                   \* the stage that ran on it, "none" before
    cleaned,                 \* the text the stage returned
    html_files,              \* the files main is to process, in order
    clean_opt,               \* args.clean
    results,                 \* the records main has collected
    written,                 \* the section files in output_dir
    pc,                      \* where main is: "idle", "loop", "saved", "fatal"
    input_dir,               \* the files input_dir.glob('*.html') lists
    names,                   \* the name of each file of html_files
    batch_size,              \* args.batch_size, 0 when it is not given
    skip_existing,           \* args.skip_existing
    processed,               \* the names process_file was called on, in order
    runs,                    \* how often main was started
    firm_years,              \* the rows given to download_batch
    skip_if_exists,          \* its skip_if_exists argument
    progress_callback,       \* whether it was given a progress callback
    output_dir,              \* the names of the files in the raw directory
    idx,                     \* the rows download_batch has gone through
    batch,                   \* the results of download_batch
    existed,                 \* the files there when download_batch was called
    downloaded,              \* the files download_10k copied during the call
    checked                  \* what the two name checks said of a file name

cleaner_vars == <<cleaner, raw, stage, cleaned>>

loop_vars == <<html_files, clean_opt, results, written, pc, input_dir, names,
               batch_size, skip_existing, processed, runs>>

download_vars == <<firm_years, skip_if_exists, progress_callback, output_dir,
                   idx, batch, existed, downloaded, checked>>

vars == <<arg_min_section_length, min_section_length, file, calls, ret,
          prev_ret, cleaner, raw, stage, cleaned, html_files, clean_opt,
          results, written, pc, input_dir, names, batch_size, skip_existing,
          processed, runs, firm_years, skip_if_exists, progress_callback,
          output_dir, idx, batch, existed, downloaded, checked>>

\* neither main of process_batch nor download_batch has been started
NoLoop ==
    /\ html_files = <<>>
    /\ clean_opt = TRUE
    /\ results = <<>>
    /\ written = {}
    /\ pc = "idle"
    /\ input_dir = <<>>
    /\ names = <<>>
    /\ batch_size = 0
    /\ skip_existing = FALSE
    /\ processed = <<>>
    /\ runs = 0
    /\ firm_years = <<>>
    /\ skip_if_exists = TRUE
    /\ progress_callback = FALSE
    /\ output_dir = {}
    /\ idx = 0
    /\ batch = [successful |-> <<>>, failed |-> <<>>, skipped |-> <<>>]
    /\ existed = {}
    /\ downloaded = {}
    /\ checked = <<>>

NoRet == [called |-> FALSE, raised |-> FALSE, value |-> AllNone,
          spans |-> AllUnresolved]

Init ==
    /\ arg_min_section_length \in MinLengths
    /\ min_section_length = arg_min_section_length
    /\ file \in Files
    /\ calls = 0
    /\ ret = NoRet
    /\ prev_ret = NoRet
    /\ cleaner = DefaultCleaner
    /\ raw = <<>>
    /\ stage = "none"
    /\ cleaned = <<>>
    /\ NoLoop

\* parser.parse_file(filepath), while fewer than limit calls were made
Parse(limit) ==
    /\ calls < limit
    /\ ret' = parse_file(file, min_section_length)
    /\ prev_ret' = ret
    /\ min_section_length' = ParserAfter(file, min_section_length)
    /\ calls' = calls + 1
    /\ UNCHANGED <<arg_min_section_length, file, cleaner_vars, loop_vars,
                   download_vars>>

\* one call on a fresh parser
ParseFile == Parse(1)

Next == ParseFile

Spec == Init /\ [][Next]_vars

\* the batch loop: the call on the file, repeated
ParseFileAgain == Parse(MaxCalls)

\* the batch loop has the same parser parse another file
ParseOther ==
    /\ calls < MaxCalls
    /\ \E f \in OtherFiles :
          min_section_length' = ParserAfter(f, min_section_length)
    /\ calls' = calls + 1
    /\ UNCHANGED <<arg_min_section_length, file, ret, prev_ret, cleaner_vars,
                   loop_vars, download_vars>>

SpecBatch == Init /\ [][ParseFileAgain \/ ParseOther]_vars

\* a cleaner and a section text; no file is parsed
InitCleaner ==
    /\ arg_min_section_length = 1000
    /\ min_section_length = arg_min_section_length
    /\ file = MissingFile
    /\ calls = 0
    /\ ret = NoRet
    /\ prev_ret = NoRet
    /\ cleaner \in CleanerSettings
    /\ raw \in CleanerTexts
    /\ stage = "none"
    /\ cleaned = raw
    /\ NoLoop

\* one stage of the cleaner runs on the text
RunStage(name, result) ==
    /\ stage = "none"
    /\ stage' = name
    /\ cleaned' = result
    /\ UNCHANGED <<arg_min_section_length, min_section_length, file, calls,
                   ret, prev_ret, cleaner, raw, loop_vars, download_vars>>

RemoveHtmlArtifacts == RunStage("html_artifacts", remove_html_artifacts(raw))
RemoveBoilerplate == RunStage("boilerplate", remove_boilerplate(raw))
RemoveTables == RunStage("tables", remove_tables(raw))
RemoveHeadersFooters == RunStage("headers_footers", remove_headers_footers(raw))
NormalizeWhitespace ==
    RunStage("whitespace",
             normalize_whitespace(raw, cleaner.max_consecutive_newlines))
FilterShortWords ==
    RunStage("short_words", filter_short_words(raw, cleaner.min_word_length))

\* cleaner.clean(text)
Clean == RunStage("clean", clean(cleaner, raw))

SpecCleaner ==
    InitCleaner /\ [][\/ RemoveHtmlArtifacts
                      \/ RemoveBoilerplate
                      \/ RemoveTables
                      \/ RemoveHeadersFooters
                      \/ NormalizeWhitespace
                      \/ FilterShortWords
                      \/ Clean]_vars

\* main of process_batch when the loop starts: the parser and the cleaner are
\* constructed, results = [] and html_files is not empty
InitLoop ==
    /\ arg_min_section_length \in MinLengths
    /\ min_section_length = arg_min_section_length
    /\ file = MissingFile
    /\ calls = 0
    /\ ret = NoRet
    /\ prev_ret = NoRet
    /\ cleaner = DefaultCleaner
    /\ raw = <<>>
    /\ stage = "none"
    /\ cleaned = <<>>
    /\ html_files \in UNION {[1..n -> BatchFiles] : n \in 1..MaxFiles}
    /\ clean_opt \in BOOLEAN
    /\ results = <<>>
    /\ written = {}
    /\ pc = "loop"
    /\ input_dir = html_files
    /\ names = [i \in 1..Len(html_files) |-> i]
    /\ batch_size = 0
    /\ skip_existing = FALSE
    /\ processed = <<>>
    /\ runs = 1
    /\ firm_years = <<>>
    /\ skip_if_exists = TRUE
    /\ progress_callback = FALSE
    /\ output_dir = {}
    /\ idx = 0
    /\ batch = [successful |-> <<>>, failed |-> <<>>, skipped |-> <<>>]
    /\ existed = {}
    /\ downloaded = {}
    /\ checked = <<>>

\* results.append(result); an exception out of process_file would leave the
\* loop for the handler of main
Collect(outcome) ==
    /\ written' = outcome.out
    /\ IF outcome.raised
       THEN pc' = "fatal" /\ results' = results
       ELSE pc' = pc /\ results' = Append(results, outcome.rec)

\* one turn of the loop: process_file on the next file of html_files
ProcessNext ==
    /\ pc = "loop"
    /\ Len(results) < Len(html_files)
    /\ \E fault \in SaveFaults :
          Collect(process_file(names[Len(results) + 1],
                               html_files[Len(results) + 1],
                               min_section_length, cleaner, clean_opt, fault,
                               written))
    /\ min_section_length' =
          ParserAfter(html_files[Len(results) + 1], min_section_length)
    /\ calls' = calls + 1
    /\ processed' = Append(processed, names[Len(results) + 1])
    /\ UNCHANGED <<arg_min_section_length, file, ret, prev_ret, cleaner_vars,
                   html_files, clean_opt, input_dir, names, batch_size,
                   skip_existing, runs, download_vars>>

\* the loop is over: save_results(results, output_dir, timestamp)
SaveResults ==
    /\ pc = "loop"
    /\ Len(results) = Len(html_files)
    /\ pc' = "saved"
    /\ UNCHANGED <<arg_min_section_length, min_section_length, file, calls,
                   ret, prev_ret, cleaner_vars, html_files, clean_opt, results,
                   written, input_dir, names, batch_size, skip_existing,
                   processed, runs, download_vars>>

SpecLoop == InitLoop /\ [][ProcessNext \/ SaveResults]_vars

\* before the first run of process_batch: an input directory of files
\* without any section, with two sections and with all three, an empty
\* output directory, and the arguments every run is started with; a batch
\* size as large as the directory is the same as none
InitRuns ==
    /\ arg_min_section_length = 1000
    /\ min_section_length = arg_min_section_length
    /\ file = MissingFile
    /\ calls = 0
    /\ ret = NoRet
    /\ prev_ret = NoRet
    /\ cleaner = DefaultCleaner
    /\ raw = <<>>
    /\ stage = "none"
    /\ cleaned = <<>>
    /\ html_files = <<>>
    /\ clean_opt = TRUE
    /\ results = <<>>
    /\ written = {}
    /\ pc = "idle"
    /\ input_dir \in UNION {[1..n ->
           {Readable(<<"p500", "\n">>),
            Readable(ItemOneHeader \o <<"p500", "\n", "p500", "\n">>
                       \o ItemOneAHeader \o <<"p500", "\n", "p500", "\n">>),
            Readable(ItemOneHeader \o <<"p500", "\n", "p500", "\n">>
                       \o ItemOneAHeader \o <<"p500", "\n", "p500", "\n">>
                       \o ItemSevenHeader \o <<"p500", "\n", "p500", "\n">>)}] :
           n \in 1..MaxInputs}
    /\ names = <<>>
    /\ batch_size \in 0..(MaxInputs - 1)
    /\ skip_existing \in BOOLEAN
    /\ processed = <<>>
    /\ runs = 0
    /\ firm_years = <<>>
    /\ skip_if_exists = TRUE
    /\ progress_callback = FALSE
    /\ output_dir = {}
    /\ idx = 0
    /\ batch = [successful |-> <<>>, failed |-> <<>>, skipped |-> <<>>]
    /\ existed = {}
    /\ downloaded = {}
    /\ checked = <<>>

\* html_files[:args.batch_size] when a batch size is given, then, with
\* skip_existing, the files whose stem is not in get_processed_files
ToProcess ==
    SelectSeq(IF batch_size # 0
              THEN [i \in 1..(IF batch_size < Len(input_dir) THEN batch_size
                              ELSE Len(input_dir)) |-> i]
              ELSE [i \in 1..Len(input_dir) |-> i],
              LAMBDA n : skip_existing
                             => n \notin get_processed_files(written, Sections))

\* main is started: the files are listed, cut to the batch size and
\* filtered; with no file left it returns at once, else a new parser is
\* built and the loop begins
StartRun ==
    /\ pc \in {"idle", "saved"}
    /\ runs < MaxRuns
    /\ runs' = runs + 1
    /\ names' = ToProcess
    /\ html_files' = [i \in 1..Len(ToProcess) |-> input_dir[ToProcess[i]]]
    /\ results' = <<>>
    /\ pc' = IF ToProcess = <<>> THEN "idle" ELSE "loop"
    /\ min_section_length' = arg_min_section_length
    /\ calls' = 0
    /\ UNCHANGED <<arg_min_section_length, file, ret, prev_ret, cleaner_vars,
                   clean_opt, written, input_dir, batch_size, skip_existing,
                   processed, download_vars>>

SpecRuns == InitRuns /\ [][StartRun \/ ProcessNext \/ SaveResults]_vars

(* ------------------------------ downloads ------------------------------ *)
\* download_batch is called: results has three empty lists, and the raw
\* directory holds some of the files the rows name
InitDownload ==
    /\ arg_min_section_length = 1000
    /\ min_section_length = arg_min_section_length
    /\ file = MissingFile
    /\ calls = 0
    /\ ret = NoRet
    /\ prev_ret = NoRet
    /\ cleaner = DefaultCleaner
    /\ raw = <<>>
    /\ stage = "none"
    /\ cleaned = <<>>
    /\ html_files = <<>>
    /\ clean_opt = TRUE
    /\ results = <<>>
    /\ written = {}
    /\ pc = "idle"
    /\ input_dir = <<>>
    /\ names = <<>>
    /\ batch_size = 0
    /\ skip_existing = FALSE
    /\ processed = <<>>
    /\ runs = 0
    /\ firm_years \in UNION {[1..n ->
           [cik : {<<"1", "7", "5", "0">>,
                   <<"0", "0", "0", "0", "0", "0", "1", "7", "5", "0">>,
                   <<"1", "2", "3", "4", "5", "6", "7", "8", "9", "0", "1">>,
                   <<"A", "B", "C">>},
            year : {999, 1993, 2020}]] : n \in 1..MaxRows}
    /\ skip_if_exists \in BOOLEAN
    /\ progress_callback \in BOOLEAN
    /\ output_dir \in SUBSET
           {download_10k(firm_years[i].cik, firm_years[i].year, FALSE, {},
                         TRUE).filepath : i \in 1..Len(firm_years)}
    /\ idx = 0
    /\ batch = [successful |-> <<>>, failed |-> <<>>, skipped |-> <<>>]
    /\ existed = output_dir
    /\ downloaded = {}
    /\ checked = <<>>

\* one turn of the loop of download_batch, on the next row: the download finds
\* the filing or not, and the progress callback, when there is one, returns
\* or raises
DownloadNext ==
    /\ idx < Len(firm_years)
    /\ \E found \in BOOLEAN, raises \in BOOLEAN :
          /\ raises => progress_callback
          /\ LET row == firm_years[idx + 1]
                 r == download_10k(row.cik, row.year, skip_if_exists,
                                   output_dir, found)
                 entry == [cik |-> row.cik, year |-> row.year,
                           path |-> r.filepath]
                 recorded ==
                     IF r.success
                     THEN IF r.filepath # <<>> /\ skip_if_exists
                             /\ r.filepath \in r.dir
                          THEN [batch EXCEPT !.skipped = Append(@, entry)]
                          ELSE [batch EXCEPT !.successful = Append(@, entry)]
                     ELSE [batch EXCEPT !.failed =
                              Append(@, [cik |-> row.cik, year |-> row.year,
                                         error |-> "Not found"])]
             IN  /\ batch' = IF raises
                             THEN [recorded EXCEPT !.failed =
                                      Append(@, [cik |-> row.cik,
                                                 year |-> row.year,
                                                 error |-> "raised"])]
                             ELSE recorded
                 /\ output_dir' = r.dir
                 /\ downloaded' = IF r.copied THEN downloaded \cup {r.filepath}
                                  ELSE downloaded
    /\ idx' = idx + 1
    /\ UNCHANGED <<arg_min_section_length, min_section_length, file, calls,
                   ret, prev_ret, cleaner_vars, loop_vars, firm_years,
                   skip_if_exists, progress_callback, existed, checked>>

\* after the batch, the name of a file of the raw directory is given to
\* validate_filename and to extract_metadata_from_filename
CheckFilename ==
    /\ idx = Len(firm_years)
    /\ checked = <<>>
    /\ \E filename \in output_dir :
          checked' = <<[filename |-> filename,
                        valid |-> validate_filename(filename),
                        meta |-> extract_metadata_from_filename(filename)]>>
    /\ UNCHANGED <<arg_min_section_length, min_section_length, file, calls,
                   ret, prev_ret, cleaner_vars, loop_vars, firm_years,
                   skip_if_exists, progress_callback, output_dir, idx, batch,
                   existed, downloaded>>

SpecDownload == InitDownload /\ [][DownloadNext \/ CheckFilename]_vars

(* ------------------------------- claims -------------------------------- *)
\* the text the sections are extracted from
Text == CleanupWhitespace(file.text)

\* the call returned for a file that was read and rendered
Parsed == ret.called /\ file.exists /\ file.fault = "none"

\* the candidates of a section, as a set
CandidateSet(s) ==
    LET cands == Candidates(Lower(Text), s)
    IN  {cands[i] : i \in 1..Len(cands)}

\* length of the span Phase 1 builds from candidate c
Phase1Span(s, c) ==
    LET start_pos == StartPos(Text, c)
    IN  SpanLen(Text, start_pos, EndPos(Text, Lower(Text), s, start_pos))

\* the candidates whose Phase 1 span is long enough
Qualifying(s) ==
    {c \in CandidateSet(s) : Phase1Span(s, c) >= min_section_length}

\* C1: when some candidate's Phase 1 span has at least min_section_length
\* characters, the section returned is built in Phase 1 from the qualifying
\* candidate with the largest start offset; no earlier candidate is selected
\* when a later one qualifies.
C1_LatestQualifyingWins ==
    Parsed =>
        \A s \in SectionSet :
            LET r == ret.spans[s]
            IN  /\ Qualifying(s) # {} => r.phase = 1
                /\ r.phase = 1 =>
                      /\ r.match \in Qualifying(s)
                      /\ \A c \in Qualifying(s) : c.start <= r.match.start
                      /\ r.start_pos = StartPos(Text, r.match)
                      /\ r.end_pos = EndPos(Text, Lower(Text), s, r.start_pos)

\* a later candidate was selected although an earlier one (a table of
\* contents line) qualifies too
C1_Witness ==
    /\ Parsed
    /\ \E s \in SectionSet :
          /\ ret.spans[s].phase = 1
          /\ \E c \in Qualifying(s) : c.start < ret.spans[s].match.start

\* the matches of all end patterns of section s after start_pos, every
\* occurrence of each
EndMatches(s, start_pos) ==
    LET patterns == SECTION_END_PATTERNS[s]
    IN  UNION {LET found == FindIter(Lower(Text), patterns[k], start_pos)
               IN  {found[i] : i \in 1..Len(found)} : k \in 1..Len(patterns)}

\* distance in characters from start_pos to the start of match m
Gap(start_pos, m) == Off(Text, m.start) - Off(Text, start_pos)

\* the nearest end match at least MinEndGap characters after start_pos, the
\* end of the text when there is none
NearestEnd(s, start_pos) ==
    LET eligible == {m.start : m \in {e \in EndMatches(s, start_pos) :
                                        Gap(start_pos, e) >= MinEndGap}}
    IN  IF eligible = {} THEN Len(Text) + 1
        ELSE CHOOSE v \in eligible : \A w \in eligible : v <= w

\* C2: the end of a span accepted in Phase 1 is the nearest match, over all
\* end patterns of the section and all their occurrences, that lies at least
\* 500 characters after the adjusted start, and the end of the document only
\* when no such match exists.
C2_NearestEligibleEnd ==
    Parsed =>
        \A s \in SectionSet :
            LET r == ret.spans[s]
            IN  r.phase = 1 => r.end_pos = NearestEnd(s, r.start_pos)

\* the first match after start_pos of each end pattern of section s
FirstEndMatches(s, start_pos) ==
    LET patterns == SECTION_END_PATTERNS[s]
    IN  {Search(Lower(Text), patterns[k], start_pos) : k \in 1..Len(patterns)}
            \ {NoMatch}

\* the end markers the phase that accepted a span looks at
MarkersOf(s, r) ==
    IF r.phase = 1 THEN FirstEndMatches(s, r.start_pos)
    ELSE {Search(Lower(Text), NextItemPattern, r.start_pos)} \ {NoMatch}

\* C3: in both phases a marker closer than 500 characters to the adjusted
\* start never ends a span, and a marker exactly 500 characters after it is
\* eligible, so the span does not run to the end of the document past it.
C3_EligibleFrom500 ==
    Parsed =>
        \A s \in SectionSet :
            LET r == ret.spans[s]
            IN  r.phase # 0 =>
                  /\ r.end_pos <= Len(Text) =>
                        SpanLen(Text, r.start_pos, r.end_pos) >= MinEndGap
                  /\ (\E m \in MarkersOf(s, r) :
                          Gap(r.start_pos, m) = MinEndGap)
                        => r.end_pos <= Len(Text)

\* the candidates with the smallest start offset
Earliest(s) ==
    {c \in CandidateSet(s) : \A d \in CandidateSet(s) : c.start <= d.start}

\* length of the span Phase 2 builds from candidate c
Phase2Span(c) ==
    LET start_pos == StartPos(Text, c)
    IN  SpanLen(Text, start_pos, RelaxedEndPos(Text, Lower(Text), start_pos))

\* C4: a span is accepted if and only if its length is at least
\* min_section_length, in Phase 1 and in Phase 2: an accepted span is long
\* enough, a candidate whose Phase 1 span is long enough is accepted unless a
\* later one was, and when Phase 1 accepts none the Phase 2 span is accepted
\* as soon as it is long enough (999 rejected, 1000 accepted at 1000).
C4_AcceptedIffLongEnough ==
    Parsed =>
        \A s \in SectionSet :
            LET r == ret.spans[s]
            IN  /\ r.phase # 0 =>
                      SpanLen(Text, r.start_pos, r.end_pos) >= min_section_length
                /\ \A c \in CandidateSet(s) :
                      Phase1Span(s, c) >= min_section_length
                          => r.phase = 1 /\ r.match.start >= c.start
                /\ (/\ \A c \in CandidateSet(s) :
                          Phase1Span(s, c) < min_section_length
                    /\ \E c \in Earliest(s) :
                          Phase2Span(c) >= min_section_length)
                      => r.phase = 2

\* a span of exactly 1000 characters accepted with the threshold at 1000
C4_Witness ==
    /\ Parsed
    /\ min_section_length = 1000
    /\ \E s \in SectionSet :
          /\ ret.spans[s].phase # 0
          /\ SpanLen(Text, ret.spans[s].start_pos, ret.spans[s].end_pos) = 1000

\* C5: every section text parse_file returns has at least
\* min_section_length characters.
C5_ReturnedTextLongEnough ==
    Parsed =>
        \A s \in SectionSet :
            ret.value[s].some =>
                CharLen(ret.value[s].text) >= min_section_length

\* C6: Phase 2 accepts only when no candidate qualifies in Phase 1; it takes
\* a candidate of smallest start offset and the relaxed end; when its span
\* is long enough the section is returned from Phase 2; a section with
\* candidates is absent only when both phases reject.
C6_Phase1ThenPhase2ThenAbsent ==
    Parsed =>
        \A s \in SectionSet :
            LET r == ret.spans[s]
            IN  /\ r.phase = 2 =>
                      /\ Qualifying(s) = {}
                      /\ r.match \in Earliest(s)
                      /\ r.start_pos = StartPos(Text, r.match)
                      /\ r.end_pos =
                            RelaxedEndPos(Text, Lower(Text), r.start_pos)
                /\ (/\ Qualifying(s) = {}
                    /\ \E c \in Earliest(s) :
                          Phase2Span(c) >= min_section_length)
                      => r.phase = 2 /\ ret.value[s].some
                /\ (r.phase = 0 /\ CandidateSet(s) # {}) =>
                      /\ Qualifying(s) = {}
                      /\ \A c \in Earliest(s) :
                            Phase2Span(c) < min_section_length
                /\ ret.value[s].some <=> r.phase # 0

\* a section returned from Phase 2 after Phase 1 rejected its candidates
C6_Witness ==
    /\ Parsed
    /\ \E s \in SectionSet :
          /\ ret.spans[s].phase = 2
          /\ ret.value[s].some
          /\ CandidateSet(s) # {}
          /\ Qualifying(s) = {}

\* C7: every accepted span has start < end <= len(text), in characters.
C7_SpanWithinDocument ==
    Parsed =>
        \A s \in SectionSet :
            LET r == ret.spans[s]
            IN  r.phase # 0 =>
                  /\ Off(Text, r.start_pos) < Off(Text, r.end_pos)
                  /\ Off(Text, r.end_pos) <= CharLen(Text)

\* C8: the mapping parse_file returns has exactly the keys item_1, item_1a
\* and item_7, and each value is the resolution of that section alone on the
\* text, whatever the other sections resolve to.
C8_SectionsIndependent ==
    ret.called =>
        /\ DOMAIN ret.value = SectionSet
        /\ Parsed =>
              \A s \in SectionSet :
                  ret.value[s] =
                      SectionValue(Text, Resolve(Text, s, min_section_length))

\* a section found after an earlier section of the loop was absent
C8_Witness ==
    /\ Parsed
    /\ ~ret.value["item_1"].some
    /\ ret.value["item_1a"].some \/ ret.value["item_7"].some

C10_UnreadableGivesAllNone ==
    (ret.called /\ (~file.exists \/ file.fault # "none")) =>
        /\ ~ret.raised
        /\ ret.value = AllNone

\* parse_file returned for a file whose processing raised
C10_Witness == ret.called /\ file.exists /\ file.fault # "none"

\* the file cannot be read: it is missing, or reading or decoding it fails
Unreadable(f) == ~f.exists \/ f.fault = "read"

\* the file is read and rendered, and none of its sections is found
NothingFound(f) ==
    /\ f.exists
    /\ f.fault = "none"
    /\ parse_file(f, min_section_length).value = AllNone

\* what the caller of parse_file can observe of the call
Reported(f) ==
    [raised |-> parse_file(f, min_section_length).raised,
     value |-> parse_file(f, min_section_length).value]

\* a record of process_file without the name of its file
Unnamed(rec) == [rec EXCEPT !.filename = 0]

\* C11: the value parse_file returns for an unreadable file, and the record
\* process_file builds for it, differ from those of a readable file in which
\* no section was found.
C11_UnreadableToldApart ==
    \A i, j \in 1..Len(results) :
        Unreadable(html_files[i]) /\ NothingFound(html_files[j])
        => /\ Reported(html_files[i]) # Reported(html_files[j])
           /\ Unnamed(results[i]) # Unnamed(results[j])

\* C12: no document is extracted by a parser constructed with a
\* min_section_length that is not positive; the construction fails first.
C12_NonPositiveRejected ==
    ret.called => arg_min_section_length > 0 /\ min_section_length > 0

\* C13: the loop never ends in the handler of main; the records are those of
\* the files in input order, one for each file once the loop is over; a
\* record carries an error exactly when a step failed after a section was
\* counted, and then it is not a success.
C13_LoopNeverStops ==
    /\ pc # "fatal"
    /\ Len(results) <= Len(html_files)
    /\ \A i \in 1..Len(results) :
          /\ results[i].filename = i
          /\ results[i].error
             <=> (results[i].sections_extracted > 0 /\ ~results[i].success)
    /\ pc = "saved" => Len(results) = Len(html_files)

\* the loop is over, and a file was processed with success after the
\* processing of an earlier file had failed
C13_Witness ==
    /\ pc = "saved"
    /\ \E i, j \in 1..Len(results) :
          i < j /\ results[i].error /\ results[j].success

\* C14: when no start pattern of a section matches the text, the section is
\* absent, no phase accepted a span for it and the call raised nothing.
C14_NoCandidateIsAbsent ==
    Parsed =>
        \A s \in SectionSet :
            CandidateSet(s) = {} =>
                /\ ret.spans[s] = Unresolved
                /\ ret.value[s] = None
                /\ ~ret.raised

\* a text long enough for a section in which a section has no candidate
\* while another one is found
C14_Witness ==
    /\ Parsed
    /\ CharLen(Text) >= min_section_length
    /\ \E s \in SectionSet : CandidateSet(s) = {} /\ ~ret.value[s].some
    /\ \E s \in SectionSet : ret.value[s].some

\* three runs of digits separated by whitespace
ThreeRunsOfDigits ==
    <<Plus(Digit) \o Plus(WS) \o Plus(Digit) \o Plus(WS) \o Plus(Digit)>>

\* a line the table-row rule describes
DescribedTableLine(line) ==
    \/ Found(line, ThreeRunsOfDigits)
    \/ /\ \/ Found(line, <<Lit(".") \o Lit(".") \o Lit(".")>>)
          \/ Found(line, <<One(WS) \o One(WS) \o One(WS)>>)
       /\ \E i \in 1..Len(line) : line[i] \in Digit
    \/ 10 * PunctCount(line) > 4 * CharLen(line)

\* C15: _remove_tables drops exactly the lines with three or more runs of
\* digits separated by whitespace, or with a run of three dots or three
\* whitespace characters and a digit, or with more than 0.4 punctuation, and
\* keeps every other line unchanged and in order.
C15_DropsExactlyTableLines ==
    stage = "tables" =>
        cleaned = Join("\n", SelectSeq(SplitLines(raw),
                                       LAMBDA line : ~DescribedTableLine(line)))

\* what a stage of the cleaner returns for a text
StageResult(name, text) ==
    CASE name = "html_artifacts" -> remove_html_artifacts(text)
      [] name = "boilerplate" -> remove_boilerplate(text)
      [] name = "tables" -> remove_tables(text)
      [] name = "headers_footers" -> remove_headers_footers(text)
      [] name = "whitespace" ->
            normalize_whitespace(text, cleaner.max_consecutive_newlines)
      [] name = "short_words" ->
            filter_short_words(text, cleaner.min_word_length)

\* C16: every stage is idempotent: run on its own result it returns that
\* result.
C16_StagesIdempotent ==
    stage \notin {"none", "clean"} => StageResult(stage, cleaned) = cleaned

\* C17: after _remove_boilerplate no boilerplate phrase occurs in the text.
C17_NoBoilerplateLeft ==
    stage = "boilerplate" =>
        \A k \in 1..Len(BOILERPLATE_PATTERNS) :
            ~Found(cleaned, BOILERPLATE_PATTERNS[k])

\* what the stage matches: &nbsp, &letters; and a tag <...>
Artifact == HTML_PATTERNS[1] \o HTML_PATTERNS[2] \o HTML_PATTERNS[3]

\* an encoded entity &name;, the name a letter followed by letters and
\* digits (&amp; &nbsp; &frac12;)
NamedEntity ==
    <<Lit("&") \o One(WordTokens) \o Star(WordTokens \cup Digit) \o Lit(";")>>

RECURSIVE SpacesForArtifacts(_, _, _, _)
\* to[j..] is from[i..] with some artifacts replaced by one space each and
\* everything else left as it was
SpacesForArtifacts(from, i, to, j) ==
    IF i > Len(from) THEN j > Len(to)
    ELSE /\ j <= Len(to)
         /\ \/ from[i] = to[j] /\ SpacesForArtifacts(from, i + 1, to, j + 1)
            \/ /\ to[j] = " "
               /\ MatchAt(from, Artifact, i) > i
               /\ SpacesForArtifacts(from, MatchAt(from, Artifact, i), to, j + 1)

\* C18: after _remove_html_artifacts the text holds no entity &name; and no
\* tag <...>, and it is the input with artifacts replaced by one space each.
C18_NoMarkupLeft ==
    stage = "html_artifacts" =>
        /\ ~Found(cleaned, NamedEntity)
        /\ ~Found(cleaned, <<HTML_PATTERNS[3][1]>>)
        /\ SpacesForArtifacts(raw, 1, cleaned, 1)

\* the lines i .. i + n - 1 exist and are all empty
EmptyRun(lines, i, n) ==
    /\ i + n - 1 <= Len(lines)
    /\ \A j \in i..(i + n - 1) : lines[j] = <<>>

\* C19: after _normalize_whitespace no two spaces or tabs are adjacent, no
\* line starts or ends with whitespace and no more than
\* max_consecutive_newlines blank lines follow one another.
C19_WhitespaceNormalized ==
    stage = "whitespace" =>
        LET lines == SplitLines(cleaned)
        IN  /\ \A i \in 1..(Len(cleaned) - 1) :
                  ~(cleaned[i] \in {" ", "\t"} /\ cleaned[i + 1] \in {" ", "\t"})
            /\ \A i \in 1..Len(lines) :
                  lines[i] # <<>> =>
                      lines[i][1] \notin WS /\ lines[i][Len(lines[i])] \notin WS
            /\ \A i \in 1..Len(lines) :
                  ~EmptyRun(lines, i, cleaner.max_consecutive_newlines + 1)

\* a text with a run of spaces and with more blank lines in a row than
\* allowed went through the stage
C19_Witness ==
    /\ stage = "whitespace"
    /\ \E i \in 1..Len(SplitLines(raw)) :
          EmptyRun(SplitLines(raw), i, cleaner.max_consecutive_newlines + 1)
    /\ \E i \in 1..(Len(raw) - 1) : raw[i] \in {" ", "\t"} /\ raw[i + 1] = " "
    /\ \E i \in 1..Len(cleaned) : cleaned[i] = "a"

\* the words of the rule: long enough, or on the allow-list in lower case
DescribedKeep(word) ==
    \/ CharLen(word) >= cleaner.min_word_length
    \/ Spelled(Lower(word)) \in PreserveWords

BreaksInWindow(pos) ==
    {i \in pos..Len(Text) :
        Text[i] = "\n" /\ Off(Text, i) - Off(Text, pos) < 200}

\* the start the description gives a candidate: just past the first line
\* break within the window after the end of the matched header, else that end
DescribedStart(c) ==
    IF BreaksInWindow(c.end) # {}
    THEN (CHOOSE i \in BreaksInWindow(c.end) :
              \A j \in BreaksInWindow(c.end) : i <= j) + 1
    ELSE c.end

\* a string of one or more digits
Numeric(s) == s # <<>> /\ \A i \in 1..Len(s) : s[i] \in {Digits[d] : d \in 1..10}

\* name is ten digits, "_", four digits and "_10K.html"
TenDigitName(name) ==
    /\ Len(name) = 24
    /\ Numeric(SubSeq(name, 1, 10))
    /\ name[11] = "_"
    /\ Numeric(SubSeq(name, 12, 15))
    /\ SubSeq(name, 16, 24) = <<"_", "1", "0", "K", ".", "h", "t", "m", "l">>

\* C21: the name download_10k gives the file of a CIK of at most ten digits
\* and a valid year is accepted by validate_filename, and validate_filename
\* and extract_metadata_from_filename both return the ten-digit CIK and the
\* year; a name that is not ten digits, a four-digit year and "_10K.html" is
\* invalid for the first and gives (None, None) in the second.
C21_FilenameRoundTrip ==
    \A c \in 1..Len(checked) :
        LET name == checked[c].filename
        IN  /\ \A i \in 1..Len(firm_years) :
                  LET row == firm_years[i]
                      padded == SubSeq(name, 1, 10)
                  IN  (/\ Numeric(row.cik)
                       /\ Len(row.cik) <= 10
                       /\ validate_year(row.year)
                       /\ name = download_10k(row.cik, row.year, FALSE, {},
                                              TRUE).filepath)
                      => /\ TenDigitName(name)
                         /\ ToInt(padded) = ToInt(row.cik)
                         /\ checked[c].valid
                              = [valid |-> TRUE, meta |-> <<padded, row.year>>]
                         /\ checked[c].meta = <<padded, row.year>>
            /\ ~TenDigitName(name)
                  => /\ checked[c].valid = [valid |-> FALSE, meta |-> <<>>]
                     /\ checked[c].meta = <<>>

\* the entries of the given lists of the results
Recorded(lists) == UNION {{batch[l][i] : i \in 1..Len(batch[l])} : l \in lists}

\* C22: a row with a numeric CIK of at most ten digits is given a path that
\* starts with the CIK padded to ten digits, and a row whose CIK is not
\* numeric is rejected before a file name or a request is made of it: it is
\* in neither 'successful' nor 'skipped', and not in 'failed' as 'Not found'.
C22_CikValidated ==
    /\ \A e \in Recorded({"successful", "skipped"}) :
          /\ Numeric(e.cik)
          /\ Len(e.cik) <= 10
                => /\ Numeric(SubSeq(e.path, 1, 10))
                   /\ ToInt(SubSeq(e.path, 1, 10)) = ToInt(e.cik)
                   /\ e.path[11] = "_"
    /\ \A e \in Recorded({"failed"}) :
          e.error = "Not found" => Numeric(e.cik)

C30_Phase2EndsAtDocumentEnd ==
    Parsed =>
        \A s \in SectionSet :
            ret.spans[s].phase = 2 => ret.spans[s].end_pos = Len(Text) + 1

\* a section was returned through Phase 2 although an item marker follows
\* its start
C30_Witness ==
    /\ Parsed
    /\ \E s \in SectionSet :
          /\ ret.spans[s].phase = 2
          /\ Search(Lower(Text), NextItemPattern, ret.spans[s].start_pos)
                # NoMatch

\* C24: with skip_existing no file is handed to process_file twice, however
\* often process_batch is run on the unchanged input directory.
C24_ParsedAtMostOnce ==
    skip_existing =>
        \A i, j \in 1..Len(processed) :
            i # j => processed[i] # processed[j]

\* the input files that get_processed_files does not report
NotYetProcessed ==
    {n \in 1..Len(input_dir) : n \notin get_processed_files(written, Sections)}

\* C25: with a batch size N and skip_existing, a run that has just been
\* started has taken min(N, number of input files not yet processed) files.
C25_RunTakesBatchOfUnprocessed ==
    (/\ skip_existing
     /\ batch_size > 0
     /\ runs > 0
     /\ results = <<>>
     /\ pc \in {"idle", "loop"})
        => Len(html_files) =
              IF batch_size < Cardinality(NotYetProcessed)
              THEN batch_size ELSE Cardinality(NotYetProcessed)

\* C26: an entry of 'skipped' names a file that was there when download_batch
\* was called and that no download wrote during the call, and every file a
\* download wrote during the call is named by an entry of 'successful'.
C26_SkippedOnlyIfExisted ==
    /\ \A e \in Recorded({"skipped"}) :
          e.path \in existed /\ e.path \notin downloaded
    /\ \A name \in downloaded :
          \E e \in Recorded({"successful"}) : e.path = name

\* how many entries of the three lists are for the CIK and year of row
EntriesFor(row) ==
    LET hits(l) == {i \in 1..Len(batch[l]) :
                       batch[l][i].cik = row.cik /\ batch[l][i].year = row.year}
    IN  Cardinality(hits("successful")) + Cardinality(hits("failed"))
        + Cardinality(hits("skipped"))

\* C27: when download_batch has gone through all rows, the three lists
\* together have one entry for each row: their lengths sum to the number of
\* rows, and a CIK and year has as many entries as there are rows with it.
C27_EachRowInOneList ==
    idx = Len(firm_years)
        => /\ Len(batch.successful) + Len(batch.failed) + Len(batch.skipped)
                = Len(firm_years)
           /\ \A i \in 1..Len(firm_years) :
                 EntriesFor(firm_years[i])
                    = Cardinality({j \in 1..Len(firm_years) :
                                      firm_years[j] = firm_years[i]})

\* C28: whatever the text and the settings, what clean returns has no line
\* break, no tab, no two spaces in a row and no white space at either end.
C28_CleanSingleSpaced ==
    stage = "clean" =>
        /\ \A i \in 1..Len(cleaned) : cleaned[i] \notin {"\n", "\t"}
        /\ \A i \in 1..(Len(cleaned) - 1) :
              ~(cleaned[i] = " " /\ cleaned[i + 1] = " ")
        /\ cleaned # <<>> => cleaned[1] # " " /\ cleaned[Len(cleaned)] # " "

\* a cleaner that does not normalize white space was given words on several
\* lines and returned more than one word
C28_Witness ==
    /\ stage = "clean"
    /\ ~cleaner.normalize_whitespace
    /\ \E i \in 1..Len(raw) : raw[i] = "\n"
    /\ \E i \in 1..Len(cleaned) : cleaned[i] = " "

\* the cleaner differs from self at most in normalize_whitespace and in
\* max_consecutive_newlines
SameButWhitespace(self, other) ==
    /\ other.remove_tables = self.remove_tables
    /\ other.remove_headers = self.remove_headers
    /\ other.min_word_length = self.min_word_length

\* C29: two cleaners that differ only in normalize_whitespace and in
\* max_consecutive_newlines return the same text for the same input.
C29_WhitespaceSettingsIrrelevant ==
    stage = "clean" =>
        \A other \in CleanerSettings :
            SameButWhitespace(cleaner, other) => clean(other, raw) = cleaned

\* a cleaner that normalizes white space cleaned a text whose white space
\* the normalisation changes, and words were returned
C29_Witness ==
    /\ stage = "clean"
    /\ cleaner.normalize_whitespace
    /\ normalize_whitespace(raw, cleaner.max_consecutive_newlines) # raw
    /\ normalize_whitespace(raw, 1) # normalize_whitespace(raw, 2)
    /\ \E i \in 1..Len(cleaned) : cleaned[i] = " "

====
